---- MODULE Spec2Model ----
(***************************************************************************)
(* Model of rhasspymicrophone_cli_hermes.MicrophoneHermesMqtt: the         *)
(* Recorder / Publisher threads around chunk_queue, the routing flag       *)
(* udp_output driven by on_connect / on_message, and the device probe      *)
(* handle_get_devices / get_microphone_working.                            *)
(*                                                                         *)
(* Strings are sequences of tokens; the token " " is one whitespace        *)
(* character, every other token is a run of non-whitespace characters.     *)
(* Python's Optional values are sequences: None is <<>>, a value x is <<x>>.*)
(***************************************************************************)
EXTENDS Integers, Sequences, FiniteSets, TLC

\* ------------------------------------------------------------------------
\* Bounds of the model
\* ------------------------------------------------------------------------
MaxChunks == 2
MaxConnects == 2
MaxEvents == 3
MaxControlChunks == 1
MaxLines == 4
MaxSamples == 2

\* ------------------------------------------------------------------------
\* Program constants
\* ------------------------------------------------------------------------
EnergyThreshold == 30
Int16Min == -32768
Int16Max == 32767

VARIABLES
  siteId,             \* self.siteId
  output_siteId,      \* self.output_siteId
  udp_audio_port,     \* self.udp_audio_port (Optional)
  list_command,       \* self.list_command (Optional)
  test_command,       \* self.test_command (Optional)
  udp_output,         \* self.udp_output
  udp_socket,         \* self.udp_socket (Optional)
  chunk_queue,        \* self.chunk_queue
  test_audio_buffer,  \* self.test_audio_buffer (Optional)
  record_threads,     \* the threads running record(), by start order
  publish_threads,    \* the threads running publish_chunks(), by start order
  subscribed,         \* topics passed to client.subscribe
  client_published,   \* calls of client.publish(topic, payload), in order
  udp_sent,           \* calls of udp_socket.sendto(bytes, dest), in order
  enqueued,           \* history: chunks put on chunk_queue, in order
  dequeued,           \* history: chunks taken off chunk_queue, in order
  pending,            \* on_message between handle_get_devices and publish: request and result
  probe_runs,         \* history: number of runs of the list command
  events,             \* history: number of on_connect / on_message calls
  lastStep           \* history: the last handler call, its input and result

vars == <<siteId, output_siteId, udp_audio_port, list_command, test_command,
          udp_output, udp_socket, chunk_queue, test_audio_buffer,
          record_threads, publish_threads, subscribed, client_published,
          udp_sent, enqueued, dequeued, pending, probe_runs, events, lastStep>>

config == <<siteId, output_siteId, udp_audio_port, list_command, test_command>>

None == <<>>
Some(x) == <<x>>

\* ------------------------------------------------------------------------
\* str.rstrip, str.strip, re.match(r"^\s", line)
\* ------------------------------------------------------------------------
RECURSIVE rstrip(_)
rstrip(s) ==
  IF s = <<>> THEN <<>>
  ELSE IF s[Len(s)] = " " THEN rstrip(SubSeq(s, 1, Len(s) - 1))
  ELSE s

RECURSIVE lstrip(_)
lstrip(s) ==
  IF s = <<>> THEN <<>>
  ELSE IF s[1] = " " THEN lstrip(Tail(s))
  ELSE s

strip(s) == lstrip(rstrip(s))

StartsWithSpace(line) == line # <<>> /\ line[1] = " "

\* ------------------------------------------------------------------------
\* audioop.rms and audioop.add on 16-bit samples
\* A buffer is [samples |-> sequence of signed 16-bit values, odd |-> whether
\* one more byte follows the last whole sample].
\* ------------------------------------------------------------------------
RECURSIVE IsqrtBetween(_, _, _)
IsqrtBetween(m, lo, hi) ==
  IF lo = hi THEN lo
  ELSE LET mid == (lo + hi + 1) \div 2
       IN  IF mid * mid <= m THEN IsqrtBetween(m, mid, hi)
           ELSE IsqrtBetween(m, lo, mid - 1)

Isqrt(m) == IsqrtBetween(m, 0, 32768)

RECURSIVE SumQuot(_, _)
SumQuot(samples, n) ==
  IF samples = <<>> THEN 0
  ELSE ((samples[1] * samples[1]) \div n) + SumQuot(Tail(samples), n)

RECURSIVE SumRem(_, _)
SumRem(samples, n) ==
  IF samples = <<>> THEN 0
  ELSE ((samples[1] * samples[1]) % n) + SumRem(Tail(samples), n)

\* floor(sum of squares / n), computed without leaving 32 bits
MeanSquare(samples) ==
  LET n == Len(samples)
  IN  SumQuot(samples, n) + (SumRem(samples, n) \div n)

\* audioop.rms(fragment, 2); "error" stands for the raised audioop.error
audioop_rms(buffer) ==
  IF buffer.odd THEN "error"
  ELSE IF buffer.samples = <<>> THEN 0
  ELSE Isqrt(MeanSquare(buffer.samples))

fbound(val) ==
  IF val > Int16Max THEN Int16Max
  ELSE IF val < Int16Min THEN Int16Min
  ELSE val

\* audioop.add(fragment1, fragment2, 2) for fragments of equal length
audioop_add(samples1, samples2) ==
  [i \in 1..Len(samples1) |-> fbound(samples1[i] + samples2[i])]

\* bytes([energy & 0xFF, (energy >> 8) & 0xFF])
energy_bytes(energy) == <<energy % 256, (energy \div 256) % 256>>

\* the little-endian signed 16-bit sample two bytes hold
Sample16(bytes) ==
  LET u == bytes[1] + 256 * bytes[2]
  IN  IF u >= 32768 THEN u - 65536 ELSE u

\* the debiased energy of lines 193-197, for a buffer of whole samples
debiased_energy(buffer) ==
  LET energy == 0 - audioop_rms(buffer)
      bias == Sample16(energy_bytes(energy))
      pattern == [i \in 1..Len(buffer.samples) |-> bias]
  IN  audioop_rms([samples |-> audioop_add(buffer.samples, pattern),
                   odd |-> FALSE])

\* ------------------------------------------------------------------------
\* get_microphone_working
\* capture is what running the test command gives:
\*   [error |-> TRUE]                      Popen or read raised
\*   [error |-> FALSE, buffer |-> buffer]  the bytes read
\* ------------------------------------------------------------------------
get_microphone_working_FailsOpen(command, capture) ==
  IF command = None THEN FALSE
  ELSE IF capture.error THEN TRUE
  ELSE IF capture.buffer.odd THEN FALSE
  ELSE debiased_energy(capture.buffer) > EnergyThreshold

get_microphone_working_RawRms(command, capture) ==
  IF command = None THEN FALSE
  ELSE IF capture.error THEN FALSE
  ELSE IF capture.buffer.odd THEN FALSE
  ELSE audioop_rms(capture.buffer) > EnergyThreshold

get_microphone_working(command, capture) ==
  IF command = None THEN FALSE              \* assert self.test_command
  ELSE IF capture.error THEN FALSE          \* Popen / read raised
  ELSE IF capture.buffer.odd THEN FALSE     \* audioop.error
  ELSE debiased_energy(capture.buffer) > EnergyThreshold

\* ------------------------------------------------------------------------
\* handle_get_devices
\* get_devices is the request [modes, id, siteId, test]; listing is what the
\* list command gives: [error |-> TRUE] (check_output raised) or
\* [error |-> FALSE, lines |-> output.splitlines()]; capture maps a device
\* name to what its test command gives.
\* ------------------------------------------------------------------------
AudioDevice(name, description, working) ==
  [mode |-> "input", id |-> name, name |-> name,
   description |-> description, working |-> working]

\* the state of the parsing loop before the first line (lines 143-144)
ParseStart == [name |-> None, description |-> <<>>, first_mic |-> TRUE,
               devices |-> <<>>]

\* one iteration of the loop of lines 145-168
ParseLine(st, raw, test, capture) ==
  LET line == rstrip(raw)
  IN  IF StartsWithSpace(line)
      THEN [st EXCEPT !.description =
                        IF st.first_mic THEN strip(line) \o <<"*">>
                        ELSE strip(line),
                      !.first_mic = FALSE]
      ELSE LET working ==
                 IF test
                 THEN Some(get_microphone_working(test_command,
                                                  capture[st.name[1]]))
                 ELSE None
           IN  [st EXCEPT !.devices =
                            IF st.name # None
                            THEN Append(st.devices,
                                        AudioDevice(st.name[1], st.description,
                                                    working))
                            ELSE st.devices,
                          !.name = Some(strip(line))]

RECURSIVE ParseLines(_, _, _, _)
ParseLines(st, lines, test, capture) ==
  IF lines = <<>> THEN st
  ELSE ParseLines(ParseLine(st, Head(lines), test, capture), Tail(lines),
                  test, capture)

handle_get_devices_NoModeFilter(get_devices, listing, capture) ==
  LET devices ==
        IF list_command = None THEN <<>>
        ELSE IF listing.error THEN <<>>
        ELSE ParseLines(ParseStart, listing.lines, get_devices.test,
                        capture).devices
  IN  Some([devices |-> devices, id |-> get_devices.id,
            siteId |-> get_devices.siteId])

handle_get_devices(get_devices, listing, capture) ==
  IF get_devices.modes # {} /\ "input" \notin get_devices.modes THEN None
  ELSE LET devices ==
             IF list_command = None THEN <<>>
             ELSE IF listing.error THEN <<>>
             ELSE ParseLines(ParseStart, listing.lines, get_devices.test,
                             capture).devices
       IN  Some([devices |-> devices, id |-> get_devices.id,
                 siteId |-> get_devices.siteId])

\* ------------------------------------------------------------------------
\* Inputs of the control path
\* ------------------------------------------------------------------------
SiteIds == {"default", "kitchen"}

\* AudioGetDevices.topic(), AsrStartListening.topic(), AsrStopListening.topic()
\* and AudioDevices.topic(); a topic is the sequence of its levels
GetDevicesTopic == <<"hermes", "audioServer", "getDevices">>
StartListeningTopic == <<"hermes", "asr", "startListening">>
StopListeningTopic == <<"hermes", "asr", "stopListening">>
DevicesTopic == <<"hermes", "audioServer", "devices">>

\* AudioFrame.topic(siteId=...)
AudioFrameTopic(site) == <<"hermes", "audioServer", site, "audioFrame">>

\* self.audioframe_topic (line 65)
audioframe_topic == AudioFrameTopic(output_siteId)

\* the "siteId" member of a JSON payload: absent, or one of the site ids
PayloadSiteIds == {None} \cup {Some(s) : s \in SiteIds}

\* payloads of the listening notifications; valid is FALSE for a payload
\* that json.loads, the lookup of "siteId" or from_dict rejects
ListeningPayloads ==
  {[valid |-> FALSE]} \cup {[valid |-> TRUE, siteId |-> s] : s \in PayloadSiteIds}

\* payloads of the discovery request
GetDevicesPayloads ==
  {[valid |-> FALSE]} \cup
  {[valid |-> TRUE, siteId |-> s, modes |-> m, id |-> "req1", test |-> FALSE] :
     s \in PayloadSiteIds, m \in {{}, {"input"}, {"output"}}} \cup
  {[valid |-> TRUE, siteId |-> s, modes |-> {"input", "output"}, id |-> "req2",
    test |-> TRUE] : s \in PayloadSiteIds}

Messages ==
  {[topic |-> GetDevicesTopic, payload |-> p] : p \in GetDevicesPayloads} \cup
  {[topic |-> t, payload |-> p] :
     t \in {StartListeningTopic, StopListeningTopic}, p \in ListeningPayloads}

AudioPathMessages ==
  {m \in Messages :
     \/ m.topic # GetDevicesTopic
     \/ /\ m.payload.valid
        /\ m.payload.siteId = None
        /\ m.payload.modes = {"input"}
        /\ m.payload.id = "req1"
        /\ ~m.payload.test}

\* AudioGetDevices.from_dict(json_payload): siteId defaults to "default"
AudioGetDevices(json_payload) ==
  [modes |-> json_payload.modes, id |-> json_payload.id,
   siteId |-> IF json_payload.siteId = None THEN "default"
              ELSE json_payload.siteId[1],
   test |-> json_payload.test]

\* what the list command and the test command give while the service runs
Silence == [error |-> FALSE, buffer |-> [samples |-> <<0, 0>>, odd |-> FALSE]]
Speech == [error |-> FALSE, buffer |-> [samples |-> <<1000, -1000>>, odd |-> FALSE]]
Broken == [error |-> TRUE]

ExampleLines ==
  << <<"device1">>, <<" ", " ", "Description", " ", "A">>,
     <<"device2">>, <<" ", " ", "Description", " ", "B">> >>

ServiceListings == {[error |-> TRUE], [error |-> FALSE, lines |-> ExampleLines]}

ServiceCaptures ==
  {[n \in {<<"device1">>, <<"device2">>} |->
      IF n = <<"device1">> THEN Speech ELSE Broken]}

\* ------------------------------------------------------------------------
\* _check_siteId
\* ------------------------------------------------------------------------
check_siteId_AbsentMatches(json_payload) ==
  json_payload.siteId = None \/ json_payload.siteId[1] = siteId

check_siteId(json_payload) ==
  (IF json_payload.siteId = None THEN "default" ELSE json_payload.siteId[1])
    = siteId

\* ------------------------------------------------------------------------
\* __init__
\* ------------------------------------------------------------------------
\* the arguments of __init__ the service is started with
Configuration(site, output, port, list, test) ==
  [siteId |-> site, output_siteId |-> output, udp_audio_port |-> port,
   list_command |-> list, test_command |-> test]

Configurations ==
  {Configuration("default", None, None, None, None),
   Configuration("default", Some("porch"), Some(12333),
                 Some("arecord -L"), Some("arecord -D {}")),
   Configuration("kitchen", None, Some(12333), Some("arecord -L"), None)}

Init ==
  /\ \E c \in Configurations :
       /\ siteId = c.siteId
       /\ output_siteId = (IF c.output_siteId = None THEN c.siteId
                           ELSE c.output_siteId[1])
       /\ udp_audio_port = c.udp_audio_port
       /\ list_command = c.list_command
       /\ test_command = c.test_command
  /\ udp_output = FALSE
  /\ udp_socket = None
  /\ chunk_queue = <<>>
  /\ test_audio_buffer = None
  /\ record_threads = <<>>
  /\ publish_threads = <<>>
  /\ subscribed = {}
  /\ client_published = <<>>
  /\ udp_sent = <<>>
  /\ enqueued = <<>>
  /\ dequeued = <<>>
  /\ pending = None
  /\ probe_runs = 0
  /\ events = 0
  /\ lastStep = [kind |-> "init"]

\* ------------------------------------------------------------------------
\* chunk_queue: queue.Queue put / get
\* ------------------------------------------------------------------------
queue_put(queue, chunk) == Append(queue, chunk)

queue_get_Lifo(queue) ==
  [chunk |-> queue[Len(queue)], rest |-> SubSeq(queue, 1, Len(queue) - 1)]

queue_get(queue) == [chunk |-> Head(queue), rest |-> Tail(queue)]

\* the WAV container of lines 101-107 around one chunk
WavBytes(chunk) == <<"RIFF/WAVE", chunk>>

\* the transport publish_chunks selects at line 109
Transport_Inverted == IF udp_output THEN "bus" ELSE "udp"

Transport == IF udp_output THEN "udp" ELSE "bus"

\* ------------------------------------------------------------------------
\* on_connect
\* ------------------------------------------------------------------------
Connects == Len(publish_threads)

Range(seq) == {seq[i] : i \in 1..Len(seq)}

\* udp_output after on_connect (lines 214-215)
ConnectRouting == IF udp_audio_port # None THEN TRUE ELSE udp_output

ConnectSocket_NotCreated == udp_socket

\* udp_socket after line 216: a new socket when a UDP port is configured
ConnectSocket ==
  IF udp_audio_port # None THEN Some(Connects + 1) ELSE udp_socket

NetworkThreadIdle_Concurrent == TRUE

\* on_connect and on_message are callbacks of the client's network thread,
\* which calls one at a time: none starts while on_message is between
\* handle_get_devices and publish (lines 239-243)
NetworkThreadIdle == pending = None

\* the topics on_connect subscribes to, in order (lines 212-220)
ConnectTopics ==
  IF udp_audio_port # None
  THEN <<GetDevicesTopic, StartListeningTopic, StopListeningTopic>>
  ELSE <<GetDevicesTopic>>

\* on_connect up to the point where it ends: "socket" when socket.socket
\* raised (line 216), "subscribe" when client.subscribe raised after
\* subscribing to the first n topics (line 223), "started" when the two
\* threads were started; the exception is caught at line 228
OnConnect ==
  /\ NetworkThreadIdle
  /\ Connects < MaxConnects
  /\ events < MaxEvents
  /\ udp_output' = ConnectRouting
  /\ \/ /\ udp_audio_port # None
        /\ lastStep' = [kind |-> "connect", before |-> udp_output,
                        outcome |-> "socket"]
        /\ UNCHANGED <<udp_socket, subscribed, publish_threads,
                       record_threads>>
     \/ /\ udp_socket' = ConnectSocket
        /\ \E n \in 0..(Len(ConnectTopics) - 1) :
             subscribed' = subscribed \cup {ConnectTopics[i] : i \in 1..n}
        /\ lastStep' = [kind |-> "connect", before |-> udp_output,
                        outcome |-> "subscribe"]
        /\ UNCHANGED <<publish_threads, record_threads>>
     \/ /\ udp_socket' = ConnectSocket
        /\ subscribed' = subscribed \cup Range(ConnectTopics)
        /\ publish_threads' =
             Append(publish_threads, [pc |-> "get", frame |-> None])
        /\ record_threads' = Append(record_threads, [pc |-> "read"])
        /\ lastStep' = [kind |-> "connect", before |-> udp_output,
                        outcome |-> "started"]
  /\ events' = events + 1
  /\ UNCHANGED <<config, chunk_queue, test_audio_buffer, client_published,
                 udp_sent, enqueued, dequeued, pending, probe_runs>>

\* ------------------------------------------------------------------------
\* on_message
\* ------------------------------------------------------------------------
StartListeningRouting_Enable(json_payload) ==
  IF udp_audio_port # None /\ check_siteId(json_payload) THEN TRUE
  ELSE udp_output

\* udp_output after a listening-started notification (lines 246-249)
StartListeningRouting(json_payload) ==
  IF udp_audio_port # None /\ check_siteId(json_payload) THEN FALSE
  ELSE udp_output

StopListeningRouting_NoPortCheck(json_payload) ==
  IF check_siteId(json_payload) THEN TRUE ELSE udp_output

StopListeningRouting_WhileRunning(json_payload) ==
  IF /\ udp_audio_port # None
     /\ check_siteId(json_payload)
     /\ \A t \in DOMAIN record_threads : record_threads[t].pc # "done"
     /\ \A t \in DOMAIN publish_threads : publish_threads[t].pc # "done"
  THEN TRUE
  ELSE udp_output

\* udp_output after a listening-stopped notification (lines 253-256)
StopListeningRouting(json_payload) ==
  IF udp_audio_port # None /\ check_siteId(json_payload) THEN TRUE
  ELSE udp_output

Event(msg, reply) ==
  [kind |-> "message", msg |-> msg, before |-> udp_output, reply |-> reply]

OnMessageMalformed_AssignsFirst(msg) ==
  /\ ~msg.payload.valid
  /\ lastStep' = Event(msg, "none")
  /\ udp_output' = IF msg.topic = StartListeningTopic THEN FALSE
                   ELSE IF msg.topic = StopListeningTopic THEN TRUE
                   ELSE udp_output
  /\ UNCHANGED <<pending, probe_runs>>

\* a payload json.loads rejects: the exception is caught at line 258
OnMessageMalformed(msg) ==
  /\ ~msg.payload.valid
  /\ lastStep' = Event(msg, "none")
  /\ UNCHANGED <<udp_output, pending, probe_runs>>

\* lines 236-241: the discovery request, up to the result of
\* handle_get_devices
OnMessageGetDevices(msg) ==
  /\ msg.topic = GetDevicesTopic
  /\ msg.payload.valid
  /\ IF check_siteId(msg.payload)
     THEN \E listing \in ServiceListings, capture \in ServiceCaptures :
            LET result == handle_get_devices(AudioGetDevices(msg.payload),
                                             listing, capture)
            IN  /\ pending' = (IF result = None THEN None
                               ELSE Some([msg |-> msg, result |-> result[1]]))
                /\ probe_runs' = IF result # None /\ list_command # None
                                 THEN probe_runs + 1 ELSE probe_runs
                /\ lastStep' = Event(msg, IF result # None THEN "pending"
                                           ELSE "none")
     ELSE /\ lastStep' = Event(msg, "none")
          /\ UNCHANGED <<pending, probe_runs>>
  /\ UNCHANGED udp_output

\* lines 244-250
OnMessageStartListening(msg) ==
  /\ msg.topic = StartListeningTopic
  /\ msg.payload.valid
  /\ udp_output' = StartListeningRouting(msg.payload)
  /\ lastStep' = Event(msg, "none")
  /\ UNCHANGED <<pending, probe_runs>>

\* lines 251-257
OnMessageStopListening(msg) ==
  /\ msg.topic = StopListeningTopic
  /\ msg.payload.valid
  /\ udp_output' = StopListeningRouting(msg.payload)
  /\ lastStep' = Event(msg, "none")
  /\ UNCHANGED <<pending, probe_runs>>

OnMessage(delivered) ==
  /\ NetworkThreadIdle
  /\ subscribed # {}
  /\ events < MaxEvents
  /\ \E msg \in delivered :
       \/ OnMessageMalformed(msg)
       \/ OnMessageGetDevices(msg)
       \/ OnMessageStartListening(msg)
       \/ OnMessageStopListening(msg)
  /\ events' = events + 1
  /\ UNCHANGED <<config, udp_socket, chunk_queue, test_audio_buffer,
                 record_threads, publish_threads, subscribed,
                 client_published, udp_sent, enqueued, dequeued>>

\* lines 242-243 and publish(): the reply; client.publish may raise, which
\* publish() catches
OnMessageReply ==
  /\ pending # None
  /\ \E raised \in BOOLEAN :
       /\ client_published' =
            IF raised THEN client_published
            ELSE Append(client_published,
                        [topic |-> DevicesTopic,
                         payload |-> pending[1].result])
       /\ lastStep' = Event(pending[1].msg,
                            IF raised THEN "failed" ELSE "sent")
  /\ pending' = None
  /\ UNCHANGED <<config, udp_output, udp_socket, chunk_queue,
                 test_audio_buffer, record_threads, publish_threads,
                 subscribed, udp_sent, enqueued, dequeued, probe_runs, events>>

\* ------------------------------------------------------------------------
\* record
\* ------------------------------------------------------------------------
RecordUnchanged ==
  UNCHANGED <<config, udp_output, udp_socket, test_audio_buffer,
              publish_threads, subscribed, client_published, udp_sent,
              dequeued, pending, probe_runs, events>>

\* lines 79-81: a non-empty read is put on the queue
RecordRead(t, chunks) ==
  /\ record_threads[t].pc = "read"
  /\ Len(enqueued) < chunks
  /\ LET chunk == Len(enqueued) + 1
     IN  /\ chunk_queue' = queue_put(chunk_queue, chunk)
         /\ enqueued' = Append(enqueued, chunk)
  /\ lastStep' = [kind |-> "thread"]
  /\ UNCHANGED record_threads
  /\ RecordUnchanged

AfterEmptyRead_EndOfStream == "done"

\* where record() continues after an empty read and time.sleep (lines 82-84)
AfterEmptyRead == "read"

\* lines 82-84: an empty read; the loop sleeps and reads again
RecordEmptyRead(t) ==
  /\ record_threads[t].pc = "read"
  /\ record_threads' = [record_threads EXCEPT ![t].pc = AfterEmptyRead]
  /\ lastStep' = [kind |-> "empty_read", thread |-> t]
  /\ UNCHANGED <<chunk_queue, enqueued>>
  /\ RecordUnchanged

\* lines 85-86: Popen or read raised
RecordFail(t) ==
  /\ record_threads[t].pc = "read"
  /\ record_threads' = [record_threads EXCEPT ![t].pc = "done"]
  /\ lastStep' = [kind |-> "thread"]
  /\ UNCHANGED <<chunk_queue, enqueued>>
  /\ RecordUnchanged

\* ------------------------------------------------------------------------
\* publish_chunks
\* ------------------------------------------------------------------------
PublishUnchanged ==
  /\ UNCHANGED <<config, udp_output, udp_socket, record_threads, subscribed,
                 enqueued, pending, probe_runs, events>>
  /\ lastStep' = [kind |-> "thread"]

\* lines 94-107: take a chunk, add it to the test buffer, frame it
PublishGet(t) ==
  /\ publish_threads[t].pc = "get"
  /\ chunk_queue # <<>>
  /\ LET got == queue_get(chunk_queue)
     IN  /\ chunk_queue' = got.rest
         /\ dequeued' = Append(dequeued, got.chunk)
         /\ test_audio_buffer' =
              IF test_audio_buffer # None /\ test_audio_buffer[1] # <<>>
              THEN Some(Append(test_audio_buffer[1], got.chunk))
              ELSE test_audio_buffer
         /\ publish_threads' =
              [publish_threads EXCEPT
                 ![t] = [pc |-> "emit", frame |-> Some(WavBytes(got.chunk))]]
  /\ UNCHANGED <<client_published, udp_sent>>
  /\ PublishUnchanged

\* lines 109-117: send the frame on the transport udp_output selects
PublishEmit(t) ==
  /\ publish_threads[t].pc = "emit"
  /\ LET frame == publish_threads[t].frame[1]
     IN  IF Transport = "udp"
         THEN IF udp_socket = None
              THEN /\ publish_threads' =
                        [publish_threads EXCEPT
                           ![t] = [pc |-> "done", frame |-> None]]
                   /\ UNCHANGED <<client_published, udp_sent>>
              ELSE /\ udp_sent' =
                        Append(udp_sent,
                               [bytes |-> frame,
                                dest |-> <<"127.0.0.1", udp_audio_port>>])
                   /\ publish_threads' =
                        [publish_threads EXCEPT
                           ![t] = [pc |-> "get", frame |-> None]]
                   /\ UNCHANGED client_published
         ELSE /\ client_published' =
                   Append(client_published,
                          [topic |-> audioframe_topic, payload |-> frame])
              /\ publish_threads' =
                   [publish_threads EXCEPT
                      ![t] = [pc |-> "get", frame |-> None]]
              /\ UNCHANGED udp_sent
  /\ UNCHANGED <<chunk_queue, dequeued, test_audio_buffer>>
  /\ PublishUnchanged

\* lines 118-119: framing or sending raised
PublishFail(t) ==
  /\ publish_threads[t].pc = "emit"
  /\ publish_threads' =
       [publish_threads EXCEPT ![t] = [pc |-> "done", frame |-> None]]
  /\ UNCHANGED <<chunk_queue, dequeued, test_audio_buffer, client_published,
                 udp_sent>>
  /\ PublishUnchanged

\* ------------------------------------------------------------------------
\* The service
\* ------------------------------------------------------------------------
\* the service with the messages the bus delivers and the number of chunks
\* the capture processes give
Service(delivered, chunks) ==
  \/ OnConnect
  \/ OnMessage(delivered)
  \/ OnMessageReply
  \/ \E t \in DOMAIN record_threads :
       \/ RecordRead(t, chunks)
       \/ RecordEmptyRead(t)
       \/ RecordFail(t)
  \/ \E t \in DOMAIN publish_threads :
       \/ PublishGet(t)
       \/ PublishEmit(t)
       \/ PublishFail(t)

\* the audio path: the listening notifications and one discovery request
Next == Service(AudioPathMessages, MaxChunks)

Spec == Init /\ [][Next]_vars

\* the control path: every message, beside a short audio stream
NextControl == Service(Messages, MaxControlChunks)

SpecControl == Init /\ [][NextControl]_vars

\* ------------------------------------------------------------------------
\* The device probe on its own: handle_get_devices and
\* get_microphone_working applied to bounded inputs
\* ------------------------------------------------------------------------
ProbeConfigurations ==
  {Configuration("default", None, None, None, None),
   Configuration("default", None, None, Some("arecord -L"), None),
   Configuration("default", None, None,
                 Some("arecord -L"), Some("arecord -D {}"))}

ProbeLineSet ==
  {<<"device1">>, <<"device2", " ">>, <<" ", "A">>, <<" ", " ", "B", " ">>}

ProbeNames == {<<"device1">>, <<"device2">>}

RECURSIVE SeqsUpTo(_, _)
SeqsUpTo(S, n) ==
  IF n = 0 THEN {<<>>}
  ELSE LET shorter == SeqsUpTo(S, n - 1)
       IN  shorter \cup {Append(q, x) : q \in shorter, x \in S}

ProbeListings ==
  {[error |-> TRUE], [error |-> FALSE, lines |-> ExampleLines]} \cup
  {[error |-> FALSE, lines |-> l] : l \in SeqsUpTo(ProbeLineSet, MaxLines)}

ProbeCaptures == [ProbeNames -> {Speech, Silence, Broken}]

ProbeRequests ==
  {[modes |-> {"input"}, id |-> "req1", siteId |-> "default", test |-> TRUE],
   [modes |-> {}, id |-> "req2", siteId |-> "default", test |-> FALSE],
   [modes |-> {"output"}, id |-> "req1", siteId |-> "default", test |-> TRUE]}

SampleValues == {-32768, -1000, -31, -16, -15, 0, 15, 16, 31, 1000, 32767}

MicCaptures ==
  {Broken} \cup
  {[error |-> FALSE, buffer |-> [samples |-> q, odd |-> o]] :
     q \in SeqsUpTo(SampleValues, MaxSamples), o \in BOOLEAN}

InitProbe ==
  /\ \E c \in ProbeConfigurations :
       /\ siteId = c.siteId
       /\ output_siteId = (IF c.output_siteId = None THEN c.siteId
                           ELSE c.output_siteId[1])
       /\ udp_audio_port = c.udp_audio_port
       /\ list_command = c.list_command
       /\ test_command = c.test_command
  /\ udp_output = FALSE
  /\ udp_socket = None
  /\ chunk_queue = <<>>
  /\ test_audio_buffer = None
  /\ record_threads = <<>>
  /\ publish_threads = <<>>
  /\ subscribed = {}
  /\ client_published = <<>>
  /\ udp_sent = <<>>
  /\ enqueued = <<>>
  /\ dequeued = <<>>
  /\ pending = None
  /\ probe_runs = 0
  /\ events = 0
  /\ lastStep = [kind |-> "init"]

ProbeUnchanged ==
  UNCHANGED <<config, udp_output, udp_socket, chunk_queue, test_audio_buffer,
              record_threads, publish_threads, subscribed, client_published,
              udp_sent, enqueued, dequeued, pending, probe_runs, events>>

CallHandleGetDevices ==
  /\ lastStep.kind = "init"
  /\ \E get_devices \in ProbeRequests, listing \in ProbeListings,
        capture \in ProbeCaptures :
       lastStep' = [kind |-> "handle_get_devices", get_devices |-> get_devices,
                    listing |-> listing, capture |-> capture,
                    result |-> handle_get_devices(get_devices, listing,
                                                  capture)]
  /\ ProbeUnchanged

CallGetMicrophoneWorking ==
  /\ lastStep.kind = "init"
  /\ \E capture \in MicCaptures :
       lastStep' = [kind |-> "get_microphone_working", capture |-> capture,
                    result |-> get_microphone_working(test_command, capture)]
  /\ ProbeUnchanged

NextProbe == CallHandleGetDevices \/ CallGetMicrophoneWorking

SpecProbe == InitProbe /\ [][NextProbe]_vars

\* ========================================================================
\* Properties of the audio path, checked under Spec
\* ========================================================================
\* the site a payload is addressed to: "default" when it names none
AddressedSite(json_payload) ==
  IF json_payload.siteId = None THEN "default" ELSE json_payload.siteId[1]

Matches(json_payload) == AddressedSite(json_payload) = siteId

\* the last step was on_message handling a well-formed message on topic
Handled(topic) ==
  /\ lastStep.kind = "message"
  /\ lastStep.msg.topic = topic
  /\ lastStep.msg.payload.valid

IsAudioFrame(m) == Len(m.topic) = 4

AudioFrames == SelectSeq(client_published, IsAudioFrame)

DeviceReplies == SelectSeq(client_published, LAMBDA m : m.topic = DevicesTopic)

\* the chunks sent on either transport, and those framed but not yet sent
UdpChunks == [i \in 1..Len(udp_sent) |-> udp_sent[i].bytes[2]]
BusChunks == [i \in 1..Len(AudioFrames) |-> AudioFrames[i].payload[2]]
Emitting == {t \in DOMAIN publish_threads : publish_threads[t].pc = "emit"}
FramedChunks == {publish_threads[t].frame[1][2] : t \in Emitting}

RECURSIVE Increasing(_)
Increasing(chunks) ==
  Len(chunks) < 2 \/ (chunks[1] < chunks[2] /\ Increasing(Tail(chunks)))

\* C1: the chunks taken off the queue and framed by publish_chunks are a
\* prefix of the chunks record put on it, in the same order, none twice and
\* none skipped; a chunk is framed once and sent at most once, over both
\* transports together; with one publish_chunks thread the frames leave
\* each transport in that order too.
C1_FifoOrder ==
  /\ enqueued = dequeued \o chunk_queue
  /\ \A i, j \in 1..Len(dequeued) : dequeued[i] = dequeued[j] => i = j
  /\ (Range(UdpChunks) \cup Range(BusChunks) \cup FramedChunks)
       \subseteq Range(dequeued)
  /\ Cardinality(Range(UdpChunks) \cup Range(BusChunks) \cup FramedChunks)
       = Len(udp_sent) + Len(AudioFrames) + Cardinality(Emitting)
  /\ Connects <= 1 => (Increasing(UdpChunks) /\ Increasing(BusChunks))

\* C1 witness: two chunks went through the queue, one left by UDP and one
\* by the bus
C1_Witness ==
  /\ Len(dequeued) >= 2
  /\ chunk_queue = <<>>
  /\ udp_sent # <<>>
  /\ AudioFrames # <<>>

\* C2: with a UDP destination, routing is UDP after on_connect, BUS after a
\* listening-started notification for this site, UDP again after a
\* listening-stopped notification for this site; with none, routing starts
\* as BUS.
C2_RoutingTransitions ==
  /\ (udp_audio_port = None /\ events = 0) => ~udp_output
  /\ (udp_audio_port # None /\ lastStep.kind = "connect") => udp_output
  /\ (udp_audio_port # None /\ Handled(StartListeningTopic)
        /\ Matches(lastStep.msg.payload)) => ~udp_output
  /\ (udp_audio_port # None /\ Handled(StopListeningTopic)
        /\ Matches(lastStep.msg.payload)) => udp_output

\* C2 witness: a listening-stopped notification for this site arrived while
\* routing was BUS, and routing is UDP again
C2_Witness ==
  /\ udp_audio_port # None
  /\ Handled(StopListeningTopic)
  /\ Matches(lastStep.msg.payload)
  /\ ~lastStep.before
  /\ udp_output

\* C4: without a UDP destination routing is BUS in every state and nothing
\* is ever sent over UDP.
C4_NoUdpWhenUnconfigured ==
  udp_audio_port = None =>
    /\ ~udp_output
    /\ udp_socket = None
    /\ udp_sent = <<>>

\* C4 witness: no UDP destination, a listening-stopped notification for this
\* site was handled, and audio has gone to the bus
C4_Witness ==
  /\ udp_audio_port = None
  /\ Handled(StopListeningTopic)
  /\ Matches(lastStep.msg.payload)
  /\ AudioFrames # <<>>

\* a step in which publish thread t sends the frame it holds
Emits(t) ==
  /\ publish_threads[t].pc = "emit"
  /\ publish_threads'[t].pc = "get"

C5_Step ==
  \A t \in DOMAIN publish_threads :
    Emits(t) =>
      LET frame == publish_threads[t].frame[1]
      IN  IF udp_output
          THEN /\ udp_sent' =
                    Append(udp_sent,
                           [bytes |-> frame,
                            dest |-> <<"127.0.0.1", udp_audio_port>>])
               /\ client_published' = client_published
          ELSE /\ client_published' =
                    Append(client_published,
                           [topic |-> AudioFrameTopic(output_siteId),
                            payload |-> frame])
               /\ udp_sent' = udp_sent

\* C5: each frame publish_chunks sends goes out on exactly one transport,
\* the one udp_output selects when the thread reads it for that frame: to
\* the UDP destination and not the bus when it is set, to the audio-frame
\* topic of the output site and not UDP otherwise.
C5_OneTransportPerChunk == [][C5_Step]_vars

\* C5 witness: routing changed between two chunks; one frame left by UDP and
\* a later one by the bus
C5_Witness ==
  /\ udp_sent # <<>>
  /\ AudioFrames # <<>>
  /\ \E i \in 1..Len(UdpChunks), j \in 1..Len(BusChunks) :
       UdpChunks[i] < BusChunks[j]

\* ========================================================================
\* Properties of the control path, checked under SpecControl
\* ========================================================================
\* a step in which on_message is called with a well-formed message on topic
Handles(topic) ==
  /\ events' = events + 1
  /\ lastStep'.kind = "message"
  /\ lastStep'.msg.topic = topic
  /\ lastStep'.msg.payload.valid

C3_Step ==
  \A topic \in {GetDevicesTopic, StartListeningTopic, StopListeningTopic} :
    (Handles(topic) /\ ~Matches(lastStep'.msg.payload)) =>
      /\ udp_output' = udp_output
      /\ probe_runs' = probe_runs
      /\ pending' = None
      /\ client_published' = client_published

\* C3: a message addressed to another site (a payload without a site id
\* being addressed to "default") leaves routing unchanged, runs no probe
\* and publishes no reply.
C3_OtherSiteIgnored == [][C3_Step]_vars

\* C3 witness: a discovery request without a site id reached a service whose
\* site is not "default"
C3_Witness ==
  /\ Handled(GetDevicesTopic)
  /\ lastStep.msg.payload.siteId = None
  /\ siteId # "default"
  /\ "input" \in lastStep.msg.payload.modes

C6_Step ==
  /\ (Handles(GetDevicesTopic) /\ Matches(lastStep'.msg.payload)) =>
       LET request == lastStep'.msg.payload
       IN  /\ client_published' = client_published
           /\ IF request.modes # {} /\ "input" \notin request.modes
              THEN pending' = None
              ELSE /\ pending' # None
                   /\ pending'[1].result.id = request.id
                   /\ pending'[1].result.siteId = AddressedSite(request)
  /\ pending # None =>
       \/ /\ pending' = pending
          /\ DeviceReplies' = DeviceReplies
       \/ /\ pending' = None
          /\ lastStep'.reply = "sent"
          /\ client_published' =
               Append(client_published,
                      [topic |-> DevicesTopic, payload |-> pending[1].result])
       \/ /\ pending' = None
          /\ lastStep'.reply = "failed"
          /\ client_published' = client_published
  /\ (pending = None /\ pending' = None) => DeviceReplies' = DeviceReplies

\* C6: a discovery request for this site whose modes are non-empty and
\* exclude "input" gets no reply; any other gets exactly one device-list
\* reply, with the request's id and site id, published when
\* handle_get_devices has returned (none if client.publish raises).
C6_DiscoveryReply == [][C6_Step]_vars

\* C6 witness: a request with empty modes and no site id was answered
C6_Witness ==
  /\ Handled(GetDevicesTopic)
  /\ lastStep.msg.payload.modes = {}
  /\ lastStep.msg.payload.siteId = None
  /\ lastStep.reply = "sent"
  /\ DeviceReplies # <<>>
  /\ DeviceReplies[Len(DeviceReplies)].payload.id = lastStep.msg.payload.id
  /\ DeviceReplies[Len(DeviceReplies)].payload.siteId = "default"

\* ========================================================================
\* Properties of the device probe, checked under SpecProbe
\* ========================================================================
Marker == "*"

EndsWithMarker(description) ==
  description # <<>> /\ description[Len(description)] = Marker

WithoutMarker(description) ==
  IF EndsWithMarker(description)
  THEN SubSeq(description, 1, Len(description) - 1)
  ELSE description

IsIndented(raw) == StartsWithSpace(rstrip(raw))

\* an output made of device blocks: no blank line, and an identifier first
IsBlockOutput(lines) ==
  /\ \A i \in 1..Len(lines) : rstrip(lines[i]) # <<>>
  /\ lines # <<>> => ~IsIndented(lines[1])

\* the device blocks of an output: identifier and trimmed description lines
RECURSIVE Blocks(_)
Blocks(lines) ==
  IF lines = <<>> THEN <<>>
  ELSE LET before == Blocks(SubSeq(lines, 1, Len(lines) - 1))
           last == lines[Len(lines)]
       IN  IF IsIndented(last)
           THEN [before EXCEPT ![Len(before)].lines = Append(@, strip(last))]
           ELSE Append(before, [id |-> strip(last), lines |-> <<>>])

\* a description taken only from the block's own indented lines
OwnDescription(description, block) ==
  LET text == WithoutMarker(description)
  IN  IF block.lines = <<>> THEN text = <<>>
      ELSE \E i \in 1..Len(block.lines) : text = block.lines[i]

Probed == lastStep.kind = "handle_get_devices"

Admitted ==
  lastStep.get_devices.modes = {} \/ "input" \in lastStep.get_devices.modes

Listed == list_command # None /\ ~lastStep.listing.error

\* C7: for every output made of device blocks, handle_get_devices returns
\* one descriptor per block, in order, the last block included, each with the
\* block's trimmed identifier and a description from the block's own
\* indented lines; the two-block example gives two descriptors.
C7_OneDescriptorPerBlock ==
  (Probed /\ Admitted /\ Listed /\ IsBlockOutput(lastStep.listing.lines)) =>
    LET devices == lastStep.result[1].devices
        blocks == Blocks(lastStep.listing.lines)
    IN  /\ Len(devices) = Len(blocks)
        /\ \A i \in 1..Len(devices) :
             /\ devices[i].id = blocks[i].id
             /\ OwnDescription(devices[i].description, blocks[i])
        /\ lastStep.listing.lines = ExampleLines => Len(devices) = 2

\* C8: in every non-empty device list handle_get_devices returns, the
\* description of the first descriptor ends with the default marker and no
\* other description carries it.
C8_FirstDeviceMarked ==
  (Probed /\ Admitted /\ Listed /\ lastStep.result[1].devices # <<>>) =>
    LET devices == lastStep.result[1].devices
    IN  /\ EndsWithMarker(devices[1].description)
        /\ \A i \in 2..Len(devices) : ~EndsWithMarker(devices[i].description)

\* what a test gives for a device whose test command gives this capture
ExpectedWorking(capture) == test_command # None /\ capture = Speech

\* C9: a failing list command or test command never prevents the result:
\* handle_get_devices returns a device list (empty when the list command
\* failed); the devices reported are those reported when no test fails, a
\* device whose test failed has working = False, and every other device
\* keeps the result of its own test.
C9_ProbeFailuresContained ==
  (Probed /\ Admitted) =>
    /\ lastStep.result # None
    /\ lastStep.result[1].id = lastStep.get_devices.id
    /\ ~Listed => lastStep.result[1].devices = <<>>
    /\ Listed =>
         LET devices == lastStep.result[1].devices
             clean == handle_get_devices(lastStep.get_devices,
                                         lastStep.listing,
                                         [n \in ProbeNames |-> Speech])[1].devices
         IN  /\ Len(devices) = Len(clean)
             /\ \A i \in 1..Len(devices) :
                  /\ devices[i].id = clean[i].id
                  /\ devices[i].description = clean[i].description
                  /\ devices[i].working =
                       IF lastStep.get_devices.test
                       THEN Some(ExpectedWorking(lastStep.capture[devices[i].id]))
                       ELSE None

\* C9 witness: the first device's test failed, the second device was still
\* tested and is reported as working
C9_Witness ==
  /\ Probed /\ Admitted /\ Listed
  /\ lastStep.get_devices.test
  /\ Len(lastStep.result[1].devices) >= 2
  /\ lastStep.capture[lastStep.result[1].devices[1].id] = Broken
  /\ lastStep.result[1].devices[1].working = Some(FALSE)
  /\ lastStep.result[1].devices[2].working = Some(TRUE)

RECURSIVE Sum(_)
Sum(samples) == IF samples = <<>> THEN 0 ELSE samples[1] + Sum(Tail(samples))

\* the mean of the squares is above limit * limit, as a real number
MeanSquareAbove(samples, limit) ==
  \/ MeanSquare(samples) > limit * limit
  \/ /\ MeanSquare(samples) = limit * limit
     /\ SumRem(samples, Len(samples)) % Len(samples) > 0

Tested ==
  /\ lastStep.kind = "get_microphone_working"
  /\ test_command # None
  /\ ~lastStep.capture.error
  /\ ~lastStep.capture.buffer.odd

\* C10: get_microphone_working gives not working for an empty or all-zero
\* buffer, working for samples of zero mean and RMS above 30, and in
\* general working exactly when the RMS of the samples less their RMS
\* (saturated to 16 bits) exceeds 30.
C10_EnergyClassification ==
  Tested =>
    LET samples == lastStep.capture.buffer.samples
        n == Len(samples)
        rms == audioop_rms(lastStep.capture.buffer)
        debiased == [i \in 1..n |-> fbound(samples[i] - rms)]
    IN  /\ n = 0 => ~lastStep.result
        /\ (\A i \in 1..n : samples[i] = 0) => ~lastStep.result
        /\ n > 0 =>
             /\ rms * rms <= MeanSquare(samples)
             /\ MeanSquare(samples) < (rms + 1) * (rms + 1)
             /\ (Sum(samples) = 0 /\ MeanSquareAbove(samples, EnergyThreshold))
                  => lastStep.result
             /\ lastStep.result <=>
                  MeanSquare(debiased) >=
                    (EnergyThreshold + 1) * (EnergyThreshold + 1)

\* C10 witness: samples of zero mean and RMS above the threshold, found
\* working
C10_Witness ==
  /\ Tested
  /\ Len(lastStep.capture.buffer.samples) = 2
  /\ Sum(lastStep.capture.buffer.samples) = 0
  /\ MeanSquareAbove(lastStep.capture.buffer.samples, EnergyThreshold)
  /\ lastStep.result

\* ========================================================================
\* The control path beside terminated loops, checked under SpecControl
\* ========================================================================
\* a record() / publish_chunks() thread has ended on an exception
RecorderTerminated ==
  \E t \in DOMAIN record_threads : record_threads[t].pc = "done"

PublisherTerminated ==
  \E t \in DOMAIN publish_threads : publish_threads[t].pc = "done"

C11_Step ==
  (RecorderTerminated \/ PublisherTerminated) =>
    /\ (Handles(GetDevicesTopic) /\ Matches(lastStep'.msg.payload)
          /\ "input" \in lastStep'.msg.payload.modes) =>
         /\ pending' # None
         /\ pending'[1].msg = lastStep'.msg
         /\ pending'[1].result.id = lastStep'.msg.payload.id
    /\ (pending # None /\ pending' = None /\ lastStep'.reply # "failed") =>
         client_published' =
           Append(client_published,
                  [topic |-> DevicesTopic, payload |-> pending[1].result])
    /\ (Handles(StartListeningTopic) /\ Matches(lastStep'.msg.payload)
          /\ udp_audio_port # None) => ~udp_output'
    /\ (Handles(StopListeningTopic) /\ Matches(lastStep'.msg.payload)
          /\ udp_audio_port # None) => udp_output'

\* C11: once a record or publish_chunks thread has ended on an exception,
\* on_message still handles what arrives: a discovery request for this site
\* whose modes include "input" gets its result and the reply is published
\* (unless client.publish itself raises), a listening-started notification
\* for this site sets routing to BUS and a listening-stopped one to UDP.
C11_ControlSurvivesLoops == [][C11_Step]_vars

\* C11 witness: with both a record and a publish_chunks thread ended, a
\* listening-stopped notification for this site switched routing from BUS
\* to UDP
C11_Witness ==
  /\ RecorderTerminated
  /\ PublisherTerminated
  /\ udp_audio_port # None
  /\ Handled(StopListeningTopic)
  /\ Matches(lastStep.msg.payload)
  /\ ~lastStep.before
  /\ udp_output

\* ========================================================================
\* Failing control messages, checked under SpecControl
\* ========================================================================
\* what the object holds and has sent, apart from the request being handled
ServiceState ==
  <<config, udp_output, udp_socket, subscribed, chunk_queue,
    test_audio_buffer, record_threads, publish_threads, client_published,
    udp_sent>>

\* a step in which on_message is called with a payload it cannot use
HandlesMalformed ==
  /\ events' = events + 1
  /\ lastStep'.kind = "message"
  /\ ~lastStep'.msg.payload.valid

\* a step in which publishing the reply of the pending request fails
ReplyFails ==
  /\ pending # None
  /\ pending' = None
  /\ lastStep'.reply = "failed"

C12_Step ==
  /\ HandlesMalformed => (ServiceState' = ServiceState /\ pending' = None)
  /\ Handles(GetDevicesTopic) => ServiceState' = ServiceState
  /\ pending # None => udp_output' = udp_output
  /\ ReplyFails => ServiceState' = ServiceState

\* C12: a message whose payload cannot be used, on any topic, and a
\* discovery request whose reply cannot be published leave routing, the
\* subscriptions, the queue, the threads and everything sent as they were
\* and publish nothing; on_message is then ready for the next message
\* (no request is pending), which meets the state the failing message met.
C12_FailedMessageIgnored == [][C12_Step]_vars

\* C12 witness: two discovery requests ran the list command, publishing the
\* reply of the first failed, and the second was answered
C12_Witness ==
  /\ probe_runs = 2
  /\ Len(DeviceReplies) = 1
  /\ Handled(GetDevicesTopic)
  /\ lastStep.reply = "sent"

\* ========================================================================
\* The life of the loops, checked under Spec
\* ========================================================================
\* every record() / publish_chunks() thread started so far has ended
RecorderStopped ==
  /\ record_threads # <<>>
  /\ \A t \in DOMAIN record_threads : record_threads[t].pc = "done"

PublisherStopped ==
  /\ publish_threads # <<>>
  /\ \A t \in DOMAIN publish_threads : publish_threads[t].pc = "done"

C13_Step ==
  /\ RecorderStopped =>
       /\ enqueued' = enqueued
       /\ RecorderStopped'
  /\ PublisherStopped =>
       /\ udp_sent' = udp_sent
       /\ AudioFrames' = AudioFrames
       /\ Len(chunk_queue') >= Len(chunk_queue)
       /\ PublisherStopped'

\* C13: once record has ended on an exception no chunk is enqueued any more
\* and no record loop runs again; once publish_chunks has ended on an
\* exception no frame is sent on either transport, the queue never gets
\* shorter and no publish loop runs again, whatever events follow.
C13_NeverRestarted == [][C13_Step]_vars

\* a step in which record thread t got an empty read
EmptyRead(t) ==
  /\ lastStep'.kind = "empty_read"
  /\ lastStep'.thread = t

C14_Step ==
  /\ enqueued' # enqueued =>
       /\ Len(enqueued') = Len(enqueued) + 1
       /\ SubSeq(enqueued', 1, Len(enqueued)) = enqueued
       /\ chunk_queue' = Append(chunk_queue, enqueued'[Len(enqueued')])
       /\ record_threads' = record_threads
  /\ \A t \in DOMAIN record_threads :
       /\ EmptyRead(t) =>
            /\ record_threads[t].pc = "read"
            /\ record_threads'[t].pc = "read"
            /\ enqueued' = enqueued
            /\ chunk_queue' = chunk_queue
       /\ record_threads'[t].pc # record_threads[t].pc =>
            /\ record_threads'[t].pc = "done"
            /\ lastStep'.kind # "empty_read"
            /\ enqueued' = enqueued

\* C14: in record a non-empty read puts exactly one chunk on the queue and
\* the loop reads again; an empty read puts nothing on it and the loop reads
\* again, however many empty reads follow one another; the loop leaves its
\* reading state only when it ends on an exception, never on an empty read.
C14_EmptyReadsRetried == [][C14_Step]_vars

\* C14 witness: after the capture process gave its last chunk a read came
\* back empty, and the thread is reading again
C14_Witness ==
  /\ lastStep.kind = "empty_read"
  /\ Len(enqueued) = MaxChunks
  /\ record_threads[lastStep.thread].pc = "read"

\* ========================================================================
\* The debiasing step, checked under SpecProbe
\* ========================================================================
\* every sample of the buffer is the same value
IsConstant(samples) ==
  /\ samples # <<>>
  /\ \A i \in 1..Len(samples) : samples[i] = samples[1]

\* C15: for a buffer whose samples all equal one constant, positive or
\* negative, the debiased energy of get_microphone_working is at most the
\* threshold and the result is not working.
C15_DcOffsetCancelled ==
  (Tested /\ IsConstant(lastStep.capture.buffer.samples)) =>
    /\ debiased_energy(lastStep.capture.buffer) <= EnergyThreshold
    /\ ~lastStep.result

\* ========================================================================
\* One control message at a time, checked under Spec
\* ========================================================================
C16_Step ==
  pending # None =>
    /\ events' = events
    /\ udp_output' = udp_output
    /\ udp_socket' = udp_socket
    /\ subscribed' = subscribed
    /\ Len(record_threads') = Len(record_threads)
    /\ \/ pending' = pending
       \/ /\ pending' = None
          /\ lastStep'.kind = "message"
          /\ lastStep'.msg = pending[1].msg

\* the loops are not held up by a request being handled
C16_LoopsRun ==
  pending # None =>
    /\ \A t \in DOMAIN record_threads :
         (record_threads[t].pc = "read" /\ Len(enqueued) < MaxChunks)
           => ENABLED RecordRead(t, MaxChunks)
    /\ \A t \in DOMAIN publish_threads :
         /\ (publish_threads[t].pc = "get" /\ chunk_queue # <<>>)
              => ENABLED PublishGet(t)
         /\ publish_threads[t].pc = "emit" => ENABLED PublishEmit(t)

\* C16: from the step in which on_message has the result of
\* handle_get_devices until the step in which its reply is published (or
\* publishing fails), no other on_message or on_connect call is made and
\* udp_output does not change, while every record and publish_chunks thread
\* can take its next step.
C16_OneMessageAtATime == [][C16_Step]_vars /\ []C16_LoopsRun

\* C16 witness: while a discovery request was being handled a chunk was
\* enqueued, framed and sent
C16_Witness ==
  /\ pending # None
  /\ lastStep.kind = "thread"
  /\ Len(enqueued) = 1
  /\ Len(udp_sent) + Len(AudioFrames) = 1

\* ========================================================================
\* The self-test buffer of publish_chunks
\* ========================================================================
\* test_audio_buffer is None after __init__ (line 66) and publish_chunks
\* appends to it only when it is non-empty (lines 96-98); nothing else
\* assigns it, so no reachable state has a self-test buffer to append to.
SelfTestInactive == test_audio_buffer = None

\* ========================================================================
\* Routing while listening, checked under Spec
\* ========================================================================
\* routing is BUS because a listening-started notification set it: with a
\* UDP destination the first call, on_connect, has set udp_output and only
\* a listening-started notification for this site clears it
ListeningStarted ==
  /\ udp_audio_port # None
  /\ events > 0
  /\ ~udp_output

C18_Step ==
  (ListeningStarted /\ udp_output') =>
    /\ Handles(StopListeningTopic)
    /\ Matches(lastStep'.msg.payload)

\* C18: once a listening-started notification for this site has set routing
\* to BUS, only a listening-stopped notification for this site sets it back
\* to UDP; no connect or reconnect, discovery request, notification for
\* another site or thread step does.
C18_BusUntilStopped == [][C18_Step]_vars

\* ========================================================================
\* The number of loops, checked under Spec
\* ========================================================================
\* the record() / publish_chunks() threads that have not ended
RunningRecorders ==
  {t \in DOMAIN record_threads : record_threads[t].pc # "done"}

RunningPublishers ==
  {t \in DOMAIN publish_threads : publish_threads[t].pc # "done"}

\* C19: whatever connects and reconnects have happened, at most one record
\* loop and at most one publish_chunks loop are running.
C19_SingleLoops ==
  /\ Cardinality(RunningRecorders) <= 1
  /\ Cardinality(RunningPublishers) <= 1

\* ========================================================================
\* The UDP socket, checked under Spec
\* ========================================================================
\* C20: whenever a publish_chunks thread is running and udp_output is set,
\* udp_socket has been created: on_connect creates it before it starts the
\* threads and before it subscribes to the notifications that set
\* udp_output, and nothing resets it.
C20_SocketBeforeUdp ==
  (RunningPublishers # {} /\ udp_output) => udp_socket # None

\* C20 witness: during a listening session a reconnect set routing to UDP
\* and then failed to create its socket, while a publish_chunks thread holds
\* a frame to send; the socket of the first connect is there
C20_Witness ==
  /\ lastStep.kind = "connect"
  /\ lastStep.outcome = "socket"
  /\ ~lastStep.before
  /\ udp_output
  /\ udp_socket # None
  /\ \E t \in RunningPublishers : publish_threads[t].pc = "emit"

====
